---------------------------- MODULE Spec2Model ----------------------------
(***************************************************************************)
(* Model of robot/face_display.py (class FaceDisplay): the animated face   *)
(* of the dashboard.  One FaceDisplay instance, the Tk timer queue of its  *)
(* parent widget, the host clock, and the pan/tilt object it reads.        *)
(*                                                                         *)
(* Units.  Python floats are modelled in fixed point:                      *)
(*   time        1 unit = 20 ms  (0.08 s = 4, 0.18 s = 9, 0.26 s = 13,     *)
(*               3.0 s = 150, 60 ms = 3)                                   *)
(*   angles      micro-degrees   (90.0 = 90 * 10^6)                        *)
(*   px, py      1/10^4          (1.0 = 10^4)                              *)
(*   lengths     1/100 pixel     (eye_radius, pupil_travel)                *)
(*   offsets     micro-pixels    (dx, dy)                                  *)
(*   progress    1/1000          (blink progress, 1.0 = 1000)              *)
(* time.time() is taken to be non-decreasing, and the clock to read 0 when *)
(* the FaceDisplay is constructed.                                         *)
(***************************************************************************)
EXTENDS Integers, Sequences, FiniteSets, TLC

VARIABLES
    width, height,      \* constructor arguments (face_display.py:16-19)
    pan_tilt,           \* self.pan_tilt: None or the object whose attributes are read
    running,            \* self.running
    interval_ms,        \* self.interval_ms (in time units)
    blinking,           \* self.blinking
    blink_start,        \* self.blink_start (NoValue until the first blink)
    last_blink,         \* self.last_blink
    next_blink_in,      \* self.next_blink_in
    smooth_pan,         \* self.smooth_pan
    smooth_tilt,        \* self.smooth_tilt
    clock,              \* the host clock, time.time()
    now,                \* the clock value read by the most recent tick (line 122)
    pending,            \* the parent's timer queue: due times of pending _loop callbacks
    lid_h,              \* height of the lid rectangles on the canvas (y1 - y0)
    dx, dy,             \* pupil offsets last passed to _apply_offsets
    phase,              \* branch of the blink code the most recent tick took
    raised,             \* the most recent callback propagated an exception
    updates,            \* number of update_from_angles calls so far
    starts,             \* number of start() calls that started the loop
    ret                 \* value returned by the last direct call of angle_to_offset

vars == <<width, height, pan_tilt, running, interval_ms, blinking, blink_start,
          last_blink, next_blink_in, smooth_pan, smooth_tilt, clock, now, pending,
          lid_h, dx, dy, phase, raised, updates, starts, ret>>

-----------------------------------------------------------------------------
(* Fixed-point scales *)

AngleScale == 10^6
Unit == 10^4
ProgScale == 10^3

Min(a, b) == IF a <= b THEN a ELSE b
Max(a, b) == IF a >= b THEN a ELSE b
Abs(a) == IF a >= 0 THEN a ELSE -a

(* Python values.  An attribute of the pan/tilt object is a number, None (or
   missing, or its getter raises AttributeError: getattr(..., None) gives None
   in all three cases), a non-numeric value such as a str, or a property whose
   getter raises another exception. *)
Num(v) == [k |-> "num", v |-> v]
NoneValue == [k |-> "none", v |-> 0]
Malformed == [k |-> "malformed", v |-> 0]
Raises == [k |-> "raises", v |-> 0]
NoSource == [present |-> FALSE, angle_pan |-> NoneValue, angle_tilt |-> NoneValue]
PanTilt(p, t) == [present |-> TRUE, angle_pan |-> p, angle_tilt |-> t]
NoValue == -1

-----------------------------------------------------------------------------
(* Constants of FaceDisplay.__init__ and _loop *)

pan_min == 0
pan_max == 180 * AngleScale
tilt_min == 30 * AngleScale
tilt_max == 150 * AngleScale
SmoothStart == 90 * AngleScale
SmoothNum == 18
SmoothDen == 100
idle_phase == 0
DefaultInterval == 3
CloseEnd == 4
HoldEnd == 9
OpenEnd == 13
BlinkMin == 150
BlinkInitMax == 500
BlinkMax == 600
DefaultWidth == 640
DefaultHeight == 320

(* Geometry computed by the constructor *)
eye_radius == Min(width, height) * 18
pupil_radius == Max(6, (eye_radius * 36) \div 10000)
pupil_travel == eye_radius - 100 * pupil_radius - 600

-----------------------------------------------------------------------------
(* angle_to_offset *)

(* max(lo, min(hi, v)), lines 75-76 *)
Clamp(lo, hi, v) == Max(lo, Min(hi, v))

Centered(v, lo, hi) == (2 * (v - lo) - (hi - lo)) \div ((hi - lo) \div Unit)

(* angle_to_offset without lines 75-76 *)
angle_to_offset_unclamped(pan, tilt) ==
    LET px == Centered(pan, pan_min, pan_max)
        py == -Centered(tilt, tilt_min, tilt_max)
    IN  <<px * pupil_travel, (py * ((pupil_travel * 6) \div 10))>>

angle_to_offset(pan, tilt) ==
    LET px == Centered(pan, pan_min, pan_max)
        py == -Centered(tilt, tilt_min, tilt_max)
        cx == Clamp(-Unit, Unit, px)
        cy == Clamp(-Unit, Unit, py)
    IN  <<cx * pupil_travel, (cy * ((pupil_travel * 6) \div 10))>>


-----------------------------------------------------------------------------
(* _idle_offsets.  math.sin and math.cos in fixed point: the argument in
   milliradians, the result in 1/1000, by Bhaskara's approximation
   sin x = 16 x (pi - x) / (5 pi^2 - 4 x (pi - x)) on [0, pi] (within 0.005 of math.sin). *)

Pi == 3142

SinHalf(x) ==
    LET p == x * (Pi - x)
    IN  (16 * p) \div ((5 * Pi * Pi - 4 * p) \div 1000)

Sin(x) ==
    LET r == x % (2 * Pi)
    IN  IF r <= Pi THEN SinHalf(r) ELSE -SinHalf(r - Pi)

Cos(x) == Sin(x + Pi \div 2)

(* t in time units of 20 ms: t * 0.8 rad = 16 mrad per unit, t * 1.3 = 26,
   t * 1.1 = 22.  The result is in micro-pixels. *)
idle_offsets(t) ==
    LET jitter_x == Sin(t * 16) * 2000 + Sin(t * 26) * 1000
        jitter_y == Cos(t * 22) * 1200
    IN  <<jitter_x, (jitter_y * 6) \div 10>>

-----------------------------------------------------------------------------
(* _draw_blink and _clear_blink: the lid height, int(er * 2 * progress) *)

draw_blink(progress) == (eye_radius * 2 * progress) \div (100 * ProgScale)

clear_blink == 0

(* The progress the tick draws at `elapsed` time units into a blink *)
CloseProgress(elapsed) == Min(ProgScale, (elapsed * ProgScale) \div CloseEnd)

(* line 137 without the "1.0 -" *)
OpenProgressRising(elapsed) ==
    Min(ProgScale, ((elapsed - HoldEnd) * ProgScale) \div (OpenEnd - HoldEnd))

OpenProgress(elapsed) ==
    Max(0, ProgScale - ((elapsed - HoldEnd) * ProgScale) \div (OpenEnd - HoldEnd))

-----------------------------------------------------------------------------
(* update_from_angles: one step of the exponential filter,
   s += (target - s) * 0.18, rounded to the nearest micro-degree *)

(* lines 114-115 with the step truncated to whole degrees, int(...) *)
SmoothStepTruncated(s, target) ==
    LET d == target - s
        whole == (((Abs(d) \div SmoothDen) * SmoothNum) \div AngleScale) * AngleScale
    IN  IF d >= 0 THEN s + whole ELSE s - whole

SmoothStep(s, target) ==
    LET d == target - s
        q == d \div SmoothDen
        r == d % SmoothDen
    IN  s + SmoothNum * q + (SmoothNum * r + SmoothDen \div 2) \div SmoothDen

-----------------------------------------------------------------------------
(* The parent's timer queue.  after(ms, f) queues f at clock + ms; Tk runs
   the timers in order of due time, first queued first among equals, and
   never before they are due. *)

RECURSIVE InsertTimer(_, _)
InsertTimer(q, due) ==
    IF q = <<>> THEN <<due>>
    ELSE IF Head(q) <= due THEN <<Head(q)>> \o InsertTimer(Tail(q), due)
    ELSE <<due>> \o q

after(q, ms) == InsertTimer(q, clock + ms)


-----------------------------------------------------------------------------
(* Bounds of the model *)

MaxPending == 2          \* timers in the queue at once
MaxStarts == 2           \* start() calls that start the loop
MaxLate == 3             \* how late (time units) the host may run a due timer
MaxClock == 8            \* horizon of Spec
MaxClockBlink == 172     \* horizon of SpecBlink
MaxClockSmooth == 61     \* horizon of SpecSmooth
MaxUpdates == 2          \* update_from_angles calls in Spec
MaxSmoothUpdates == 60   \* update_from_angles calls in SpecSmooth

FastInterval == DefaultInterval - 1        \* start(interval_ms=40)
SmoothInterval == DefaultInterval \div 3    \* start(interval_ms=20)
Intervals == {DefaultInterval, FastInterval}

Sizes == {<<DefaultWidth, DefaultHeight>>, <<100, 100>>, <<50, 50>>}

(* random.uniform(3.0, 10.0) and random.uniform(3.0, 12.0) *)
InitBlinkSamples == {BlinkMin, BlinkMin + 2}
BlinkSamples == {BlinkMin, BlinkMax}

OutOfRangePan == 400 * AngleScale
Sources ==
    { NoSource,
      PanTilt(Num(0), Num(90 * AngleScale)),
      PanTilt(Num(OutOfRangePan), Num(0)),
      PanTilt(NoneValue, Num(90 * AngleScale)),
      PanTilt(Malformed, Num(90 * AngleScale)),
      PanTilt(Num(0), Malformed),
      PanTilt(Raises, Num(90 * AngleScale)) }

-----------------------------------------------------------------------------
(* FaceDisplay.__init__: the state after construction at clock 0 *)

Init(sizes, sources, samples) ==
    /\ \E sz \in sizes : width = sz[1] /\ height = sz[2]
    /\ pan_tilt \in sources
    /\ running = FALSE
    /\ interval_ms = DefaultInterval
    /\ blinking = FALSE
    /\ blink_start = NoValue
    /\ last_blink = 0
    /\ next_blink_in \in samples
    /\ smooth_pan = SmoothStart
    /\ smooth_tilt = SmoothStart
    /\ clock = 0
    /\ now = 0
    /\ pending = <<>>
    /\ lid_h = 0
    /\ dx = 0
    /\ dy = 0
    /\ phase = "Open"
    /\ raised = FALSE
    /\ updates = 0
    /\ starts = 0
    /\ ret = <<>>

-----------------------------------------------------------------------------
(* FaceDisplay._loop *)

(* _loop without lines 120-121 *)
ShouldReturnNever == FALSE

(* line 120: the cancellation check *)
ShouldReturn == ~running

(* line 124 without "and not self.blinking" *)
StartsBlinkAnyTime(n) == n - last_blink > next_blink_in

(* line 124: a blink starts *)
StartsBlink(n) == n - last_blink > next_blink_in /\ ~blinking

(* lines 131-139: the branch taken `elapsed` into a blink *)
BlinkBranch(elapsed) ==
    IF elapsed < CloseEnd THEN "Closing"
    ELSE IF elapsed < HoldEnd THEN "Closed"
    ELSE IF elapsed < OpenEnd THEN "Opening"
    ELSE "Open"

(* lines 145-148: the values read from the pan/tilt object *)
ReadPan == IF pan_tilt.present THEN pan_tilt.angle_pan ELSE NoneValue
ReadTilt == IF pan_tilt.present THEN pan_tilt.angle_tilt ELSE NoneValue
ReadRaises == pan_tilt.present /\ (pan_tilt.angle_pan.k = "raises" \/ pan_tilt.angle_tilt.k = "raises")

(* line 149 with "or" for "and" *)
UsesAnglesEither(pan, tilt) == pan.k # "none" \/ tilt.k # "none"

(* line 149 *)
UsesAngles(pan, tilt) == pan.k # "none" /\ tilt.k # "none"

LoopBody ==
    LET n == clock
        start == StartsBlink(n)
        blinking1 == blinking \/ start
        bstart == IF start THEN n ELSE blink_start
        elapsed == n - bstart
        br == IF blinking1 THEN BlinkBranch(elapsed) ELSE "Open"
        done == blinking1 /\ br = "Open"
        live == ~ReadRaises /\ UsesAngles(ReadPan, ReadTilt)
        panError == live /\ ReadPan.k # "num"                    \* TypeError, line 114
        tiltError == live /\ ~panError /\ ReadTilt.k # "num"     \* TypeError, line 115
        ok == ~ReadRaises /\ ~panError /\ ~tiltError
        sp == IF live /\ ~panError THEN SmoothStep(smooth_pan, ReadPan.v) ELSE smooth_pan
        st == IF live /\ ok THEN SmoothStep(smooth_tilt, ReadTilt.v) ELSE smooth_tilt
        off == IF live THEN angle_to_offset(sp, st) ELSE idle_offsets(n + idle_phase)
    IN  /\ now' = n
        /\ blinking' = (blinking1 /\ ~done)
        /\ blink_start' = bstart
        /\ phase' = br
        /\ lid_h' = IF ~blinking1 THEN lid_h
                    ELSE IF br = "Closing" THEN draw_blink(CloseProgress(elapsed))
                    ELSE IF br = "Closed" THEN draw_blink(ProgScale)
                    ELSE IF br = "Opening" THEN draw_blink(OpenProgress(elapsed))
                    ELSE clear_blink
        /\ last_blink' = IF done THEN n ELSE last_blink
        /\ IF done THEN next_blink_in' \in BlinkSamples ELSE next_blink_in' = next_blink_in
        /\ smooth_pan' = sp
        /\ smooth_tilt' = st
        /\ dx' = IF ok THEN off[1] ELSE dx
        /\ dy' = IF ok THEN off[2] ELSE dy
        /\ updates' = IF live THEN updates + 1 ELSE updates
        /\ raised' = ~ok
        /\ pending' = IF ok THEN after(Tail(pending), interval_ms) ELSE Tail(pending)
        /\ UNCHANGED <<width, height, pan_tilt, running, interval_ms, clock, starts, ret>>

LoopStep ==
    /\ pending # <<>>
    /\ Head(pending) <= clock
    /\ IF ShouldReturn
       THEN /\ pending' = Tail(pending)
            /\ raised' = FALSE
            /\ UNCHANGED <<width, height, pan_tilt, running, interval_ms, blinking,
                           blink_start, last_blink, next_blink_in, smooth_pan,
                           smooth_tilt, clock, now, lid_h, dx, dy, phase, updates,
                           starts, ret>>
       ELSE LoopBody

(* The tick, with the number of update_from_angles calls capped *)
Loop(cap) ==
    /\ (running /\ ~ReadRaises /\ UsesAngles(ReadPan, ReadTilt)) => updates < cap
    /\ LoopStep

(* FaceDisplay.start *)
Start(ms) ==
    /\ Len(pending) < MaxPending
    /\ starts < MaxStarts
    /\ IF running
       THEN UNCHANGED vars
       ELSE /\ interval_ms' = ms
            /\ starts' = starts + 1
            /\ running' = TRUE
            /\ pending' = after(pending, 0)
            /\ UNCHANGED <<width, height, pan_tilt, blinking, blink_start, last_blink,
                           next_blink_in, smooth_pan, smooth_tilt, clock, now, lid_h,
                           dx, dy, phase, raised, updates, ret>>

(* FaceDisplay.stop *)
Stop ==
    /\ running' = FALSE
    /\ UNCHANGED <<width, height, pan_tilt, interval_ms, blinking, blink_start,
                   last_blink, next_blink_in, smooth_pan, smooth_tilt, clock, now,
                   pending, lid_h, dx, dy, phase, raised, updates, starts, ret>>

(* The pan/tilt object changes: the mount moves, fails, or is replaced *)
SetAngles(s) ==
    /\ s # pan_tilt
    /\ pan_tilt' = s
    /\ UNCHANGED <<width, height, running, interval_ms, blinking, blink_start,
                   last_blink, next_blink_in, smooth_pan, smooth_tilt, clock, now,
                   pending, lid_h, dx, dy, phase, raised, updates, starts, ret>>

(* One time unit passes while a timer waits.  A due timer runs at most
   MaxLate late. *)
Advance(horizon) ==
    /\ clock + 1 <= horizon
    /\ pending # <<>>
    /\ clock + 1 <= Head(pending) + MaxLate
    /\ clock' = clock + 1
    /\ UNCHANGED <<width, height, pan_tilt, running, interval_ms, blinking, blink_start,
                   last_blink, next_blink_in, smooth_pan, smooth_tilt, now, pending,
                   lid_h, dx, dy, phase, raised, updates, starts, ret>>

(* A quiet period of 3 s with no timer waiting: the face is stopped *)
Quiet(horizon) ==
    /\ pending = <<>>
    /\ clock + BlinkMin <= horizon
    /\ clock' = clock + BlinkMin
    /\ UNCHANGED <<width, height, pan_tilt, running, interval_ms, blinking, blink_start,
                   last_blink, next_blink_in, smooth_pan, smooth_tilt, now, pending,
                   lid_h, dx, dy, phase, raised, updates, starts, ret>>

-----------------------------------------------------------------------------
(* Spec: the face with a pan/tilt object that moves and fails *)

InitLive == Init({<<DefaultWidth, DefaultHeight>>}, Sources, {BlinkMin})

NextLive ==
    \/ Start(DefaultInterval)
    \/ Stop
    \/ Loop(MaxUpdates)
    \/ \E s \in Sources : SetAngles(s)
    \/ Advance(MaxClock)

Spec == InitLive /\ [][NextLive]_vars

(* SpecBlink: the face without a pan/tilt object, long enough to blink *)

InitBlink == Init({<<DefaultWidth, DefaultHeight>>}, {NoSource}, InitBlinkSamples)

NextBlink ==
    \/ \E ms \in Intervals : Start(ms)
    \/ Stop
    \/ Loop(MaxUpdates)
    \/ Advance(MaxClockBlink)
    \/ Quiet(MaxClockBlink)

SpecBlink == InitBlink /\ [][NextBlink]_vars


(* SpecSmooth: the face following a mount that holds one position *)

SmoothTargets ==
    { PanTilt(Num(pan_min), Num(tilt_min)),
      PanTilt(Num(pan_max), Num(tilt_max)),
      PanTilt(Num(110 * AngleScale), Num(70 * AngleScale)),
      PanTilt(Num(45 * AngleScale), Num(120 * AngleScale)) }

InitSmooth == Init({<<DefaultWidth, DefaultHeight>>}, SmoothTargets, {BlinkMin})

NextSmooth ==
    \/ Start(SmoothInterval)
    \/ Loop(MaxSmoothUpdates)
    \/ Advance(MaxClockSmooth)

SpecSmooth == InitSmooth /\ [][NextSmooth]_vars

(* SpecOffset: angle_to_offset called directly *)

TestPans == {-90, 0, 45, 90, 179, 180, 181, 400}
TestTilts == {-30, 29, 30, 60, 90, 150, 151, 300}
OffsetInputs ==
    { PanTilt(Num(p * AngleScale), Num(t * AngleScale)) : p \in TestPans, t \in TestTilts }

CallAngleToOffset ==
    /\ ret = <<>>
    /\ ret' = angle_to_offset(pan_tilt.angle_pan.v, pan_tilt.angle_tilt.v)
    /\ UNCHANGED <<width, height, pan_tilt, running, interval_ms, blinking, blink_start,
                   last_blink, next_blink_in, smooth_pan, smooth_tilt, clock, now,
                   pending, lid_h, dx, dy, phase, raised, updates, starts>>

InitOffset == Init(Sizes, OffsetInputs, {BlinkMin})

NextOffset == CallAngleToOffset

SpecOffset == InitOffset /\ [][NextOffset]_vars


-----------------------------------------------------------------------------
(* Properties *)

VisualState == <<blinking, blink_start, last_blink, next_blink_in, phase,
                 smooth_pan, smooth_tilt, dx, dy, lid_h>>

PanValue == pan_tilt.angle_pan
TiltValue == pan_tilt.angle_tilt

(* The pan/tilt object is None, or its pan or tilt is None or absent, and
   reading the other does not raise *)
Unavailable ==
    \/ ~pan_tilt.present
    \/ /\ PanValue.k = "none" \/ TiltValue.k = "none"
       /\ PanValue.k # "raises"
       /\ TiltValue.k # "raises"

(* Reading the pan/tilt object raises, or gives a non-numeric value *)
Failing ==
    /\ pan_tilt.present
    /\ PanValue.k \in {"malformed", "raises"} \/ TiltValue.k \in {"malformed", "raises"}

IdleNow == idle_offsets(clock + idle_phase)

(* C1.  Cancellation: while the running flag is clear, no step (in particular
   no tick callback that fires, pending since before stop() or not) changes
   the blink state, the smoothed angles, the pupil offsets or the lids; a tick
   that fires only leaves the timer queue; and the queue grows only by a
   start(), which sets the flag. *)
C1_CancelledTickDoesNothing ==
    [][ ~running =>
          /\ UNCHANGED VisualState
          /\ LoopStep => pending' = Tail(pending)
          /\ Len(pending') > Len(pending) => running' ]_vars

(* C1 witness: the loop ran on live angles, was stopped, and the callback that
   was pending at stop() has fired and left nothing in the queue. *)
C1_Witness ==
    /\ ~running
    /\ starts >= 1
    /\ updates >= 1
    /\ ~raised
    /\ pending = <<>>

(* C2.  Failure semantics: a tick that runs while reading the angle source
   raises or gives a non-numeric value applies the idle offsets, propagates
   nothing and re-arms the next tick. *)
C2_FailureFallsBackToIdle ==
    [][ (LoopStep /\ running /\ Failing) =>
          /\ ~raised'
          /\ dx' = IdleNow[1]
          /\ dy' = IdleNow[2]
          /\ pending' = after(Tail(pending), interval_ms) ]_vars

Rank(ph) ==
    IF ph = "Open" THEN 0 ELSE IF ph = "Closing" THEN 1 ELSE IF ph = "Closed" THEN 2 ELSE 3

NextPhase(ph) ==
    IF ph = "Open" THEN "Closing"
    ELSE IF ph = "Closing" THEN "Closed"
    ELSE IF ph = "Closed" THEN "Opening"
    ELSE "Open"

FullLid == draw_blink(ProgScale)

LidCoverage ==
    /\ phase' = "Open" => lid_h' = 0
    /\ (phase = "Open" /\ phase' = "Closing") => lid_h' = 0
    /\ phase' = "Closed" => lid_h' = FullLid
    /\ (phase = "Closing" /\ phase' = "Closing") => lid_h' >= lid_h
    /\ (phase = "Opening" /\ phase' = "Opening") => lid_h' <= lid_h

(* C3 as claimed.  Blink cycle: the phase only ever moves to the next phase
   of Open, Closing, Closed, Opening, Open (no phase is skipped), with the lid
   coverage 0 at both ends, full during the hold, non-decreasing while closing
   and non-increasing while opening. *)
C3_BlinkVisitsEveryPhase ==
    [][ /\ phase' # phase => phase' = NextPhase(phase)
        /\ LidCoverage ]_vars

(* C3 as amended.  The phase never moves backwards within a blink, a blink
   always begins with Closing at coverage 0, and when a tick runs at most
   80 ms after the tick before it the phase moves to the next phase or stays;
   the lid coverage is as claimed. *)
C3_BlinkCycleInOrder ==
    [][ /\ phase' # phase => (phase' = "Open" \/ Rank(phase') > Rank(phase))
        /\ (phase = "Open" /\ phase' # "Open") => phase' = "Closing"
        /\ (phase' # phase /\ now' - now <= CloseEnd) => phase' = NextPhase(phase)
        /\ LidCoverage ]_vars

(* C3 witness: a blink that took ticks no more than 80 ms apart has completed. *)
C3_Witness ==
    /\ ~blinking
    /\ phase = "Open"
    /\ blink_start # NoValue
    /\ last_blink = now
    /\ lid_h = 0
    /\ last_blink - blink_start <= OpenEnd + CloseEnd - 1

(* C4.  No re-entry: while a blink is in progress blink_start is never
   reassigned; blink_start is assigned only when no blink is in progress and
   the time since last_blink exceeds next_blink_in; the tick that completes a
   blink sets last_blink to its own time and resamples next_blink_in. *)
C4_NoBlinkReentry ==
    [][ /\ blinking => blink_start' = blink_start
        /\ blink_start' # blink_start =>
              /\ ~blinking
              /\ blinking'
              /\ blink_start' = clock
              /\ clock - last_blink > next_blink_in
        /\ (blinking /\ ~blinking') =>
              /\ last_blink' = clock
              /\ next_blink_in' \in BlinkMin..BlinkMax ]_vars

(* C4 witness: a tick ran during a blink, after a stop() and a second
   start(), with the start condition of line 124 still true of the clock. *)
C4_Witness ==
    /\ blinking
    /\ starts >= 2
    /\ now > blink_start
    /\ now - last_blink > next_blink_in

(* C5.  Unavailable source: a tick that runs while the angle source is None,
   or its pan or tilt is None or absent, applies the idle offsets, raises
   nothing, leaves the smoothed angles unchanged and re-arms the next tick. *)
C5_UnavailableFallsBackToIdle ==
    [][ (LoopStep /\ running /\ Unavailable) =>
          /\ ~raised'
          /\ dx' = IdleNow[1]
          /\ dy' = IdleNow[2]
          /\ UNCHANGED <<smooth_pan, smooth_tilt>>
          /\ pending' = after(Tail(pending), interval_ms) ]_vars

(* C5 witness: after ticks on live angles the source is unavailable and a
   tick has applied the idle offsets and re-armed. *)
C5_Witness ==
    /\ running
    /\ updates >= 1
    /\ Unavailable
    /\ now = clock
    /\ now > 0
    /\ dx = IdleNow[1]
    /\ dy = IdleNow[2]
    /\ ~raised
    /\ pending # <<>>

(* Offsets in 1/100 pixel, rounded towards zero *)
Centi(v) == Abs(v) \div Unit

(* C6.  The magnitude of the pupil offset (dx, dy) never exceeds pupil_travel. *)
C6_OffsetWithinTravel ==
    Centi(dx) * Centi(dx) + Centi(dy) * Centi(dy) <= pupil_travel * pupil_travel

(* C7.  The smoothed pan and tilt always lie within [pan_min, pan_max] and
   [tilt_min, tilt_max]. *)
C7_SmoothedInDomain ==
    /\ pan_min <= smooth_pan /\ smooth_pan <= pan_max
    /\ tilt_min <= smooth_tilt /\ smooth_tilt <= tilt_max

Epsilon == AngleScale \div 1000

PanDistance == Abs(PanValue.v - smooth_pan)
TiltDistance == Abs(TiltValue.v - smooth_tilt)

(* C8 as claimed.  Smoothing converges: after 50 updates towards a constant
   target in the domain, the smoothed angle is within 1e-3 of the target. *)
C8_SmoothWithin50 ==
    updates = 50 => (PanDistance <= Epsilon /\ TiltDistance <= Epsilon)

(* C8 as amended.  After 58 (or more) updates towards a constant target in
   the domain the smoothed angle is within 1e-3 of the target, and no update
   increases the distance to the target. *)
C8_SmoothWithin58 ==
    [][ /\ updates' >= 58 => (PanDistance' <= Epsilon /\ TiltDistance' <= Epsilon)
        /\ PanDistance' <= PanDistance
        /\ TiltDistance' <= TiltDistance ]_vars

(* C8 witness: 58 updates towards pan 0, the farthest target from 90. *)
C8_Witness ==
    /\ updates = 58
    /\ PanValue.v = pan_min
    /\ PanDistance <= Epsilon
    /\ PanDistance > 0

(* C9.  Saturation: angle_to_offset of any pan and tilt equals
   angle_to_offset of the pan and the tilt each clamped to its domain. *)
C9_OffsetSaturates ==
    ret # <<>> =>
        ret = angle_to_offset(Clamp(pan_min, pan_max, PanValue.v),
                              Clamp(tilt_min, tilt_max, TiltValue.v))

(* C9 witness: angle_to_offset was called with the pan above and the tilt
   inside its domain: one axis saturates, the other does not. *)
C9_Witness ==
    /\ ret # <<>>
    /\ PanValue.v > pan_max
    /\ TiltValue.v > tilt_min
    /\ TiltValue.v < 90 * AngleScale
    /\ ret[1] = Unit * pupil_travel
    /\ ret[2] > 0
    /\ pupil_travel > 0

(* C10.  Single tick chain: at most one tick callback is pending. *)
C10_SingleTickChain == Len(pending) <= 1

=============================================================================
